---- MODULE Spec2Model ----
(***************************************************************************)
(* stackpulse: the polling scheduler (monitor.Monitor), the metric         *)
(* collector (metrics.Collector) with its rolling event-loop window, and   *)
(* the hand-over of a Status to the dashboard.                             *)
(*                                                                         *)
(* Units: event-loop lag is kept in tenths of a millisecond, CPU usage in  *)
(* whole percent, memory in MB.                                            *)
(***************************************************************************)
EXTENDS Integers, Sequences, FiniteSets, TLC

\* ---------------------------------------------------------------- bounds
NumCallers == 2        \* goroutines that call Monitor.Start
MaxPasses  == 2        \* timer firings the loop may turn into passes
MaxSamples == 101      \* direct CollectEventLoop calls in SpecWindow
MaxCalls   == 3        \* CheckThresholds calls in SpecAlerts
SampledCpuMax == 300   \* largest CPU percentage executeScript reads

\* ------------------------------------------------------ program constants
WindowCap == 100       \* collector.go:131  len(c.eventLoopHist) > 100
\* collector.go:292: the float64 nearest to 0.95 is Mant * 2^-53 with
\* Mant = 8556839292003942 = (MantHi * 2^20 + MantMid) * 2^20 + MantLo
MantHi    == 7782
MantMid   == 419430
MantLo    == 419430
MantBits  == 53        \* significand width of a float64
LimbBits  == 20        \* limb width of the multi-precision product below

Callers == 1..NumCallers
None    == 0

\* pids a successful FindProcessByPort can return; ports a run is started with
Pids  == {4242, 4343}
Ports == {3000}

\* what the pass can read from the process and the inspector
CpuValues      == {10, 95}                 \* CollectCPU, percent
\* proc.CPUPercent() as executeScript reads it: simulated lags of 18 and 48 ms
ProbeCpuValues == {35, 95}
RssValues      == {120}                    \* memInfo.RSS, MB
EndpointStates == {"unreachable", "silent", "nosession", "up"}

VARIABLES
    config,         \* *config.ServiceConfig shared by Monitor and Collector
    running,        \* Monitor.running
    mu,             \* Monitor.mu: None or the caller holding the lock
    pc,             \* position of each caller inside Start / collectAndProcess
    result,         \* what Start returned to each caller
    ctxDone,        \* ctx.Done() of the context each caller passed is closed
    tickC,          \* ticker.C of each caller's ticker holds a tick (buffer 1)
    passErr,        \* err of Start's loop: what the last pass returned
    passes,         \* passes started so far
    eventLoopHist,  \* Collector.eventLoopHist
    appended,       \* every lag ever appended to eventLoopHist, in order
    lastEL,         \* EventLoopMetrics the last CollectEventLoop returned
    display,        \* Status the dashboard was last updated with
    displayEp,      \* inspector state seen by the pass that built display
    displayed,      \* number of display.Update calls
    evaluated,      \* number of alerts.CheckThresholds calls
    lookups,        \* number of Collector.FindProcessByPort calls
    pattern,        \* SpecWindow: the lag series fed to CollectEventLoop
    watch,          \* runWatch: "flags" read, then "valid" or "invalid"
    activeAlerts,   \* Manager.activeAlerts
    calls,          \* SpecAlerts: the CheckThresholds calls made so far
    clock           \* SpecAlerts: the wall clock read by time.Now()

vars == <<config, running, mu, pc, result, ctxDone, tickC, passErr,
          passes, eventLoopHist, appended, lastEL, display, displayEp,
          displayed, evaluated, lookups, pattern, watch, activeAlerts,
          calls, clock>>

schedVars  == <<running, mu, result, ctxDone, tickC>>
sampleVars == <<eventLoopHist, appended, lastEL>>
outVars    == <<display, displayEp, displayed, evaluated, lookups>>
alertVars  == <<activeAlerts, calls, clock>>
modeVars   == <<pattern, watch, alertVars>>

\* ------------------------------------------------------------ pure helpers

\* a Lock() that never waits
CanLockUnguarded(holder) == TRUE

\* Monitor.Start, line 36: m.mu.Lock() goes through only when nobody holds mu
CanLock(holder) == holder = None

\* a Start that does not look at the flag
AlreadyRunningIgnored(r) == FALSE

\* Monitor.Start, line 37: if m.running { ... return error }
AlreadyRunning(r) == r

\* a loop that gives up on the first failed pass
AfterPassGiveUp(err) == IF err = "nil" THEN "select" ELSE "stop"

\* Monitor.Start, lines 58-61: the error of a pass is logged and the loop
\* goes back to select
AfterPass(err) == "select"

\* Monitor.Start, lines 51-58: the cases of the select that are ready; Go
\* picks one of the ready cases at random
ReadyCases(done, tick) ==
    (IF done THEN {"ctx"} ELSE {}) \cup (IF tick THEN {"tick"} ELSE {})

\* executeScript, lines 353-355: 0.5 + cpu/100*50 ms, in tenths of a ms
SimulatedLag(cpuPercent) == 5 + 5 * cpuPercent

\* an eviction that already starts at 100 (>= for >)
AppendHistEarly(hist, lag) ==
    LET h == Append(hist, lag)
    IN  IF Len(h) >= WindowCap THEN SubSeq(h, 2, Len(h)) ELSE h

\* CollectEventLoop, lines 130-133: append, then drop the oldest past 100
AppendHist(hist, lag) ==
    LET h == Append(hist, lag)
    IN  IF Len(h) > WindowCap THEN SubSeq(h, 2, Len(h)) ELSE h

\* ---- calculateEventLoopStats, lines 258-299
\* The loops over the window are written by halving their index range: the
\* iterations lo..hi are the iterations lo..mid followed by mid+1..hi, in the
\* order of the code; the value after the first half is bound before the
\* second half starts.
\* lines 265-276: running max / min over the window
RECURSIVE HistMax(_, _, _, _)
HistMax(h, lo, hi, m) ==
    IF lo > hi THEN m
    ELSE IF lo = hi THEN (IF h[lo] > m THEN h[lo] ELSE m)
    ELSE CHOOSE o \in {HistMax(h, (lo + hi) \div 2 + 1, hi, t) :
                          t \in {HistMax(h, lo, (lo + hi) \div 2, m)}} : TRUE

RECURSIVE HistMin(_, _, _, _)
HistMin(h, lo, hi, m) ==
    IF lo > hi THEN m
    ELSE IF lo = hi THEN (IF h[lo] < m THEN h[lo] ELSE m)
    ELSE CHOOSE o \in {HistMin(h, (lo + hi) \div 2 + 1, hi, t) :
                          t \in {HistMin(h, lo, (lo + hi) \div 2, m)}} : TRUE

\* line 286: the comparison of the bubble sort
OutOfOrder(a, b) == a > b

\* lines 286-288: compare the neighbours at j, j+1 and swap them
SwapStep(s, j) ==
    IF OutOfOrder(s[j], s[j + 1])
    THEN [s EXCEPT ![j] = s[j + 1], ![j + 1] = s[j]]
    ELSE s

\* lines 285-289: one inner sweep, here the steps j = lo .. hi (1-based)
RECURSIVE BubbleInner(_, _, _)
BubbleInner(s, lo, hi) ==
    IF lo > hi THEN s
    ELSE IF lo = hi THEN SwapStep(s, lo)
    ELSE CHOOSE o \in {BubbleInner(t, (lo + hi) \div 2 + 1, hi) :
                          t \in {BubbleInner(s, lo, (lo + hi) \div 2)}} : TRUE

\* lines 284-290: the outer loop, here the sweeps i = lo .. hi (0-based), the
\* sweep i running over j < len-1-i
RECURSIVE BubbleOuter(_, _, _)
BubbleOuter(s, lo, hi) ==
    IF lo > hi THEN s
    ELSE IF lo = hi THEN BubbleInner(s, 1, Len(s) - 1 - lo)
    ELSE CHOOSE o \in {BubbleOuter(t, (lo + hi) \div 2 + 1, hi) :
                          t \in {BubbleOuter(s, lo, (lo + hi) \div 2)}} : TRUE

BubbleSort(h) == BubbleOuter(h, 0, Len(h) - 1)

\* ---- float64(len(sorted)) * 0.95, lines 292-295, bit-exactly
Pow2(k) == 2 ^ k

\* the number of significant bits of x
BitLen(x) == CHOOSE b \in 0..(3 * LimbBits) :
                 /\ x < Pow2(b)
                 /\ b > 0 => x >= Pow2(b - 1)

\* int(float64(n) * 0.95): the exact product n * Mant, rounded to nearest-even
\* at 53 significant bits as the float64 multiplication does, then truncated
FloatMul095Trunc(n) ==
    LET B    == Pow2(LimbBits)
        p0   == n * MantLo
        r0   == p0 % B
        p1   == n * MantMid + (p0 \div B)
        r1   == p1 % B
        p2   == n * MantHi + (p1 \div B)
        s    == (2 * LimbBits + BitLen(p2)) - MantBits   \* bits rounded away
        unit == Pow2(s)
        low  == r0 % unit
        q0   == r0 \div unit
        up   == /\ s > 0
                /\ \/ 2 * low > unit
                   \/ 2 * low = unit /\ q0 % 2 = 1
        r0x  == (q0 + (IF up THEN 1 ELSE 0)) * unit
        r1x  == r1 + (IF r0x >= B THEN 1 ELSE 0)
        p2x  == p2 + (IF r1x >= B THEN 1 ELSE 0)
    IN  p2x \div Pow2(MantBits - 2 * LimbBits)

\* the products for every length the window can have, computed once
FloatMul095Table == [n \in 1..WindowCap |-> FloatMul095Trunc(n)]

\* a rank rounded to nearest instead of truncated
P95IndexRounded(n) ==
    IF (95 * n + 50) \div 100 >= n THEN n - 1 ELSE (95 * n + 50) \div 100

\* lines 292-295: p95Index := int(float64(len) * 0.95), clamped to len-1
P95Index(n) ==
    IF FloatMul095Table[n] >= n THEN n - 1 ELSE FloatMul095Table[n]

\* lines 258-299; Sum and Count are the exact sum and the number of the
\* samples, the mean as the code computes it is Float64Mean below
RECURSIVE HistSum(_, _, _, _)
HistSum(h, lo, hi, sum) ==
    IF lo > hi THEN sum
    ELSE IF lo = hi THEN sum + h[lo]
    ELSE CHOOSE o \in {HistSum(h, (lo + hi) \div 2 + 1, hi, t) :
                          t \in {HistSum(h, lo, (lo + hi) \div 2, sum)}} : TRUE

calculateEventLoopStats(h) ==
    IF Len(h) = 0
    THEN [Sum |-> 0, Count |-> 0, Max |-> 0, Min |-> 0, P95 |-> 0]
    ELSE [Sum   |-> HistSum(h, 1, Len(h), 0),
          Count |-> Len(h),
          Max   |-> HistMax(h, 1, Len(h), h[1]),
          Min   |-> HistMin(h, 1, Len(h), h[1]),
          P95   |-> BubbleSort(h)[P95Index(Len(h)) + 1]]

\* the second branch without its ceiling
calculateEventLoopUtilizationUncapped(lag) ==
    IF lag <= 10 THEN lag * 10 ELSE 100 + (lag - 10) * 5

\* lines 301-308, in tenths of a percent for a lag in tenths of a ms:
\* lag*10 up to 1 ms, then min(100, 10 + (lag-1)*5)
calculateEventLoopUtilization(lag) ==
    IF lag <= 10 THEN lag * 10
    ELSE IF 100 + (lag - 10) * 5 > 1000 THEN 1000 ELSE 100 + (lag - 10) * 5

\* the utilization taken from the largest lag of the window
EventLoopMetricsOfMax(h, lag) ==
    LET st == calculateEventLoopStats(h)
    IN  [Lag |-> lag, Sum |-> st.Sum, Count |-> st.Count, Max |-> st.Max,
         Min |-> st.Min, P95 |-> st.P95,
         Utilization |-> calculateEventLoopUtilization(st.Max)]

\* CollectEventLoop, lines 135-147: the metrics returned for the window h
\* whose newest sample is lag
EventLoopMetrics(h, lag) ==
    LET st == calculateEventLoopStats(h)
    IN  [Lag |-> lag, Sum |-> st.Sum, Count |-> st.Count, Max |-> st.Max,
         Min |-> st.Min, P95 |-> st.P95,
         Utilization |-> calculateEventLoopUtilization(lag)]

\* ---- the float64 arithmetic of the mean, lines 264-276, bit-exactly
\* A float64 that is 0 or between 2^-8 and 2^14 is a whole number of units
\* of 2^-60; it is kept as four limbs of LimbBits bits, the lowest first.

FxZero == <<0, 0, 0, 0>>

\* baseLag := 0.5
FxHalf == <<0, 0, Pow2(LimbBits - 1), 0>>

\* float64(n) of a small whole number n
FxOfInt(n) == <<0, 0, 0, n>>

\* carries moved up
FxNorm(t) ==
    LET B  == Pow2(LimbBits)
        v2 == t[2] + (t[1] \div B)
        v3 == t[3] + (v2 \div B)
    IN  <<t[1] % B, v2 % B, v3 % B, t[4] + (v3 \div B)>>

\* the exact sum, the exact product with a small whole number, and the
\* exact quotient by one with its remainder
FxAdd(a, b) == FxNorm(<<a[1] + b[1], a[2] + b[2], a[3] + b[3], a[4] + b[4]>>)

FxMulSmall(a, m) == FxNorm(<<a[1] * m, a[2] * m, a[3] * m, a[4] * m>>)

FxDivSmall(a, n) ==
    LET B  == Pow2(LimbBits)
        v2 == (a[4] % n) * B + a[3]
        v1 == (v2 % n) * B + a[2]
        v0 == (v1 % n) * B + a[1]
    IN  [q |-> <<v0 \div n, v1 \div n, v2 \div n, a[4] \div n>>, r |-> v0 % n]

FxBitLen(a) ==
    IF a[4] > 0 THEN 3 * LimbBits + BitLen(a[4])
    ELSE IF a[3] > 0 THEN 2 * LimbBits + BitLen(a[3])
    ELSE IF a[2] > 0 THEN LimbBits + BitLen(a[2])
    ELSE BitLen(a[1])

\* a <= b
FxLe(a, b) ==
    \/ a[4] < b[4]
    \/ /\ a[4] = b[4]
       /\ \/ a[3] < b[3]
          \/ /\ a[3] = b[3]
             /\ \/ a[2] < b[2]
                \/ a[2] = b[2] /\ a[1] <= b[1]

\* the float64 nearest to a + r/n (0 <= r < n), ties to the even mantissa:
\* what every float64 operation does to its exact result
Float64Round(a, r, n) ==
    LET s == FxBitLen(a) - MantBits              \* bits rounded away
    IN  IF s < 0 \/ (s = 0 /\ r = 0) THEN a
        ELSE IF s <= LimbBits
        THEN LET unit == Pow2(s)
                 low  == a[1] % unit
                 odd  == IF s < LimbBits THEN (a[1] \div unit) % 2 = 1
                         ELSE a[2] % 2 = 1
                 up   == \/ 2 * low * n + 2 * r > unit * n
                         \/ 2 * low * n + 2 * r = unit * n /\ odd
             IN  FxNorm(<<a[1] - low + (IF up THEN unit ELSE 0),
                          a[2], a[3], a[4]>>)
        ELSE LET unit == Pow2(s - LimbBits)
                 low  == a[1] + (a[2] % unit) * Pow2(LimbBits)
                 odd  == (a[2] \div unit) % 2 = 1
                 up   == \/ 2 * low * n + 2 * r > Pow2(s) * n
                         \/ 2 * low * n + 2 * r = Pow2(s) * n /\ odd
             IN  FxNorm(<<0, a[2] - (a[2] % unit) + (IF up THEN unit ELSE 0),
                          a[3], a[4]>>)

\* a + b, a * m and a / n as float64 operations
Float64Add(a, b) ==
    CHOOSE o \in {Float64Round(x, 0, 1) : x \in {FxAdd(a, b)}} : TRUE

Float64Mul(a, m) ==
    CHOOSE o \in {Float64Round(x, 0, 1) : x \in {FxMulSmall(a, m)}} : TRUE

Float64Div(a, n) ==
    CHOOSE o \in {Float64Round(d.q, d.r, n) : d \in {FxDivSmall(a, n)}} : TRUE

\* executeScript, lines 353-355: baseLag + (cpuPercent / 100.0 * 50), the
\* float64 that SimulatedLag(cpuPercent) stands for
simulatedLag(cpuPercent) ==
    Float64Add(FxHalf, Float64Mul(Float64Div(FxOfInt(cpuPercent), 100), 50))

\* the float64 of every sample of the window, computed once: 0 for the
\* fallback, the simulated lag otherwise
Float64LagTable == [cpu \in 0..SampledCpuMax |-> simulatedLag(cpu)]

Float64OfLag(lag) ==
    IF lag = 0 THEN FxZero ELSE Float64LagTable[(lag - 5) \div 5]

\* lines 264-269: sum := 0.0, then sum += lag for the samples lo..hi in order
RECURSIVE Float64Sum(_, _, _, _)
Float64Sum(h, lo, hi, sum) ==
    IF lo > hi THEN sum
    ELSE IF lo = hi
    THEN CHOOSE o \in {Float64Add(s, Float64OfLag(h[lo])) : s \in {sum}} : TRUE
    ELSE CHOOSE o \in {Float64Sum(h, (lo + hi) \div 2 + 1, hi, t) :
                          t \in {Float64Sum(h, lo, (lo + hi) \div 2, sum)}} : TRUE

\* line 276: mean = sum / float64(len(c.eventLoopHist)); 0 for no samples
\* (lines 259-261)
Float64Mean(h) ==
    IF Len(h) = 0 THEN FxZero
    ELSE Float64Div(Float64Sum(h, 1, Len(h), FxZero), Len(h))

\* ------------------------------------------------- fallbacks and stub data

\* CollectGC, lines 170-180 / collectAndProcess, lines 118-128
GCDefaults ==
    [Collections |-> 0, Duration |-> 0, HeapSizeBefore |-> 0,
     HeapSizeAfter |-> 0, Type |-> "unknown", Reason |-> "unknown",
     CollectionsTotal |-> 0, DurationTotal |-> 0]

\* getGCMetrics, lines 371-384: never fails, never looks at the inspector
\* (durations in tenths of a ms, sizes in MB)
getGCMetrics ==
    [err |-> FALSE,
     val |-> [Collections |-> 1, Duration |-> 25, HeapSizeBefore |-> 50,
              HeapSizeAfter |-> 45, Type |-> "minor",
              Reason |-> "allocation_limit", CollectionsTotal |-> 10,
              DurationTotal |-> 250]]

\* CollectGC, lines 166-183
CollectGC == IF getGCMetrics.err THEN GCDefaults ELSE getGCMetrics.val

\* CollectHandles, lines 189-197 / collectAndProcess, lines 134-142
HandleDefaults ==
    [Active |-> 0, Refs |-> 0, Timers |-> 0, TCPSockets |-> 0,
     UDPSockets |-> 0, Files |-> 0]

\* getHandleMetrics, lines 386-397
getHandleMetrics ==
    [err |-> FALSE,
     val |-> [Active |-> 15, Refs |-> 8, Timers |-> 3, TCPSockets |-> 2,
              UDPSockets |-> 0, Files |-> 2]]

\* CollectHandles, lines 185-200
CollectHandles ==
    IF getHandleMetrics.err THEN HandleDefaults ELSE getHandleMetrics.val

\* a Go map[string]uint64 is a function from its keys; make(map...) is empty
EmptyMap == [k \in {} |-> 0]

\* CollectV8, lines 206-213 / collectAndProcess, lines 148-155
V8Defaults ==
    [HeapSpaceUsed |-> EmptyMap, HeapSpaceSize |-> EmptyMap,
     HeapSpaceAvailable |-> EmptyMap, MallocedMemory |-> 0,
     PeakMallocedMemory |-> 0]

\* getV8Metrics, lines 399-417 (MB)
heapSpaces ==
    [k \in {"new_space", "old_space", "code_space", "map_space",
            "large_object"} |->
        CASE k = "new_space"  -> 10
          [] k = "old_space"  -> 40
          [] k = "code_space" -> 5
          [] k = "map_space"  -> 2
          [] OTHER            -> 8]

getV8Metrics ==
    [err |-> FALSE,
     val |-> [HeapSpaceUsed |-> heapSpaces, HeapSpaceSize |-> heapSpaces,
              HeapSpaceAvailable |-> heapSpaces, MallocedMemory |-> 15,
              PeakMallocedMemory |-> 20]]

\* CollectV8, lines 202-216
CollectV8 == IF getV8Metrics.err THEN V8Defaults ELSE getV8Metrics.val

\* getNodeMemoryInfo + getHeapUsageFromInspector, lines 418-479, as seen by
\* CollectMemory, lines 97-118 (MB).  Both GETs carry a client timeout, so a
\* silent inspector ends in an error like an unreachable one.  second is
\* the outcome of the GET of /json/runtime/evaluate.
NodeHeap(ep, second) ==
    IF ep \in {"unreachable", "silent"}
    THEN [HeapTotal |-> 0, HeapUsed |-> 0, External |-> 0]
    ELSE IF second = "err"
         THEN [HeapTotal |-> 50, HeapUsed |-> 30, External |-> 5]
         ELSE [HeapTotal |-> 60, HeapUsed |-> 45, External |-> 8]

\* getInspectorWebSocketURL, lines 310-333: http.Get on the default client,
\* which has no timeout.  "hang" = the call never returns.
getInspectorWebSocketURL(ep) ==
    CASE ep = "unreachable" -> "err"
      [] ep = "nosession"   -> "err"
      [] ep = "silent"      -> "hang"
      [] OTHER              -> "url"

\* measureEventLoopLag + executeScript, lines 219-256 and 335-358.
\* probeOk / probeCpu are what executeScript's own process lookup and
\* proc.CPUPercent() give.  hang = the call never returns.
measureEventLoopLag(ep, probeOk, probeCpu) ==
    LET ws == getInspectorWebSocketURL(ep)
    IN  IF ws = "hang" THEN [hang |-> TRUE, err |-> TRUE, lag |-> 0]
        ELSE IF ws = "err" \/ ~probeOk
             THEN [hang |-> FALSE, err |-> TRUE, lag |-> 0]
             ELSE [hang |-> FALSE, err |-> FALSE, lag |-> SimulatedLag(probeCpu)]

\* ------------------------------------------- alerts.Manager.CheckThresholds
\* manager.go lines 20-154.  Values are in the units of the Status: CPU in
\* whole percent, RSS and heap in MB, lag and GC duration in tenths of a ms,
\* utilization in tenths of a percent.

\* types (config.go 45-54) and the two literal types of manager.go 125, 143
AlertTypeCPU       == "cpu"
AlertTypeMemory    == "memory"
AlertTypeEventLoop == "eventloop"
AlertTypeHeap      == "heap"
AlertTypeGC        == "gc"
AlertTypeHandles   == "handles"
SeverityWarning    == "warning"
SeverityCritical   == "critical"

\* the literal bands of manager.go
CpuCritical     == 90       \* line 26
MemoryWarning   == 150      \* line 43, MB
MemoryCritical  == 200      \* line 45
HeapWarning     == 80       \* line 63, percent
HeapCritical    == 95       \* line 65
LagWarning      == 50       \* line 82: 5 ms
LagCritical     == 200      \* line 84: 20 ms
UtilWarning     == 700      \* line 100: 70 percent
UtilCritical    == 900      \* line 102: 90 percent
GCWarning       == 100      \* line 118: 10 ms
GCCritical      == 500      \* line 120: 50 ms
HandlesWarning  == 50       \* line 136
HandlesCritical == 100      \* line 138

\* the constant head of each alert's message format (lines 33, 52, 72, 91,
\* 109, 127, 145), in the order of the checks
MessageHeads ==
    <<"High CPU usage", "High memory usage", "High heap usage",
      "High event loop lag", "High event loop utilization",
      "Long GC duration", "High handle count">>

\* a band that already triggers at the band
ExceedsOrEquals(v, band) == v >= band

\* the comparison of every check: value > band
Exceeds(v, band) == v > band

\* lines 24-28 and alike: no alert up to warn, then warning, critical above
\* crit (looked at only once warn is exceeded)
Band(v, warn, crit) ==
    IF Exceeds(v, warn)
    THEN (IF Exceeds(v, crit) THEN SeverityCritical ELSE SeverityWarning)
    ELSE "none"

\* a heap check that does not look at heap-total
HeapUnguarded(heapTotal) == TRUE

\* line 61: if status.Memory.HeapTotal > 0
HeapGuard(heapTotal) == heapTotal > 0

\* what float64 division gives for x / 0 with x > 0
PosInf == 1000000

\* line 62: heapUsage = used / total * 100, here in whole percent,
\* truncated; x / 0 is +Inf in float64
HeapUsage(used, total) ==
    IF total = 0 THEN PosInf ELSE (used * 100) \div total

\* an alert put in front of the list
prependAlert(alerts, alert) == <<alert>> \o alerts

\* lines 38, 57, 77, 96, 114, 132, 150: alerts = append(alerts, alert)
appendAlert(alerts, alert) == Append(alerts, alert)

\* one check: nothing for severity "none", else the alert appended
withAlert(alerts, sev, type, head, value, threshold, now) ==
    IF sev = "none" THEN alerts
    ELSE appendAlert(alerts,
             [Type |-> type, Severity |-> sev, Message |-> MessageHeads[head],
              Value |-> value, Threshold |-> threshold, Timestamp |-> now])

\* lines 20-154.  now is what time.Now() reads during the call.  The heap
\* percentage used / total * 100 is compared as used * 100 against
\* band * total, which decides the float comparison exactly for the sizes
\* met here.  m.activeAlerts is neither read nor written.
CheckThresholds(status, cfg, now) ==
    LET cpu  == withAlert(<< >>,
                    Band(status.CPU, cfg.CPUThreshold, CpuCritical),
                    AlertTypeCPU, 1, status.CPU, cfg.CPUThreshold, now)
        mem  == withAlert(cpu,
                    Band(status.RSS, MemoryWarning, MemoryCritical),
                    AlertTypeMemory, 2, status.RSS, MemoryWarning, now)
        heap == IF HeapGuard(status.Heap.HeapTotal)
                THEN withAlert(mem,
                         Band(status.Heap.HeapUsed * 100,
                              HeapWarning * status.Heap.HeapTotal,
                              HeapCritical * status.Heap.HeapTotal),
                         AlertTypeHeap, 3,
                         HeapUsage(status.Heap.HeapUsed,
                                   status.Heap.HeapTotal),
                         HeapWarning, now)
                ELSE mem
        lag  == withAlert(heap,
                    Band(status.EventLoop.Lag, LagWarning, LagCritical),
                    AlertTypeEventLoop, 4, status.EventLoop.Lag, LagWarning,
                    now)
        util == withAlert(lag,
                    Band(status.EventLoop.Utilization, UtilWarning,
                         UtilCritical),
                    AlertTypeEventLoop, 5, status.EventLoop.Utilization,
                    UtilWarning, now)
        gc   == withAlert(util,
                    Band(status.GC.Duration, GCWarning, GCCritical),
                    AlertTypeGC, 6, status.GC.Duration, GCWarning, now)
    IN  withAlert(gc,
            Band(status.Handles.Active, HandlesWarning, HandlesCritical),
            AlertTypeHandles, 7, status.Handles.Active, HandlesWarning, now)

\* ---------------------------------------------------------------- state

NoEL == [Lag |-> 0, Sum |-> 0, Count |-> 0, Max |-> 0, Min |-> 0, P95 |-> 0,
         Utilization |-> 0]

NoHeap == [HeapTotal |-> 0, HeapUsed |-> 0, External |-> 0]

NoStatus == [PID |-> 0, CPU |-> 0, RSS |-> 0, Heap |-> NoHeap,
             EventLoop |-> NoEL, GC |-> GCDefaults, Handles |-> HandleDefaults,
             V8 |-> V8Defaults, Alerts |-> << >>]

\* NewManager, manager.go 14-18: make(map[string]types.Alert)
NoActiveAlerts == [k \in {} |-> << >>]

\* the defaults of the flags of watch (watch.go 40-46); polling in ms
DefaultHost         == "127.0.0.1"
DefaultHeapLimit    == "150MB"
DefaultCPUThreshold == 70
DefaultPollingMs    == 100
DefaultInspectPort  == 9229

\* runWatch, watch.go 50-58: the ServiceConfig built from the flags
FlagConfig(pid, port, cpuThreshold, pollingMs) ==
    [Host |-> DefaultHost, Port |-> port, PID |-> pid,
     InspectPort |-> DefaultInspectPort, HeapLimit |-> DefaultHeapLimit,
     CPUThreshold |-> cpuThreshold, PollingInterval |-> pollingMs]

Lowest(S) == CHOOSE x \in S : \A y \in S : x <= y

\* configurations ServiceConfig.Validate (config.go 18-32) lets through, as
\* far as the target goes: a pid, or a port to resolve
TargetConfigs ==
    {FlagConfig(pid, 0, DefaultCPUThreshold, DefaultPollingMs) :
        pid \in {Lowest(Pids)}}
    \cup {FlagConfig(0, port, DefaultCPUThreshold, DefaultPollingMs) :
            port \in Ports}

\* what one pass reads from its environment: the inspector, the port
\* resolver, the process table.  A read that fails yields no value, and
\* nothing is read after a failed mandatory read: those fields are fixed.
PassInputs ==
    {in \in [ep : EndpointStates,
             found : BOOLEAN, pid : Pids,               \* FindProcessByPort
             cpuOk : BOOLEAN, cpu : CpuValues,          \* CollectCPU
             memOk : BOOLEAN, rss : RssValues,          \* CollectMemory
             second : {"ok", "err"},              \* GET /json/runtime/evaluate
             probeOk : BOOLEAN,                         \* executeScript
             probeCpu : ProbeCpuValues] :
        /\ ~in.found => in.pid = Lowest(Pids)
        /\ ~in.cpuOk => in.cpu = Lowest(CpuValues) /\ in.memOk
        /\ ~in.memOk => in.rss = Lowest(RssValues)
        /\ ~(in.cpuOk /\ in.memOk) =>
              in.ep = "up" /\ in.second = "ok" /\ in.probeOk
        /\ in.ep \in {"unreachable", "silent"} => in.second = "ok"
        /\ in.ep # "up" => in.probeOk
        /\ ~in.probeOk => in.probeCpu = Lowest(ProbeCpuValues)}

\* a pass that asks the resolver whenever the target was given by port
NeedsResolveByPort(cfg) == cfg.Port # 0

\* part_001 line 68: if m.config.PID == 0
NeedsResolve(cfg) == cfg.PID = 0

\* part_001 lines 171-173: alertList := CheckThresholds(status, m.config);
\* status.Alerts = alertList
StatusWithAlerts(st, cfg, now) ==
    [st EXCEPT !.Alerts = CheckThresholds(st, cfg, now)]

\* a failed measurement reported as the lag of an idle process
LagOrFallbackIdle(r) == IF r.err THEN SimulatedLag(0) ELSE r.lag

\* CollectEventLoop, lines 122-127: an error of measureEventLoopLag is
\* swallowed and the lag set to 0
LagOrFallback(r) == IF r.err THEN 0 ELSE r.lag

\* collector.go 121-148: CollectEventLoop on the window hist.
\* hang: measureEventLoopLag never returned, nothing after it happened.
CollectEventLoop(hist, ep, probeOk, probeCpu) ==
    LET r   == measureEventLoopLag(ep, probeOk, probeCpu)
        lag == LagOrFallback(r)
        \* the window after the append (130-133), then the statistics of it
        out == {[hang |-> r.hang, lag |-> lag, hist |-> h,
                 el |-> EventLoopMetrics(h, lag)] :
                    h \in {AppendHist(hist, lag)}}
    IN  CHOOSE o \in out : TRUE

\* a pass that has already put a sample into the window when it gives up
WindowAtEarlyReturnSampled(hist) == AppendHist(hist, 0)

\* lines 66-85: the three early returns all come before line 87, the call
\* of CollectEventLoop, which alone touches the window
WindowAtEarlyReturn(hist) == hist

\* part_001 lines 66-188: collectAndProcess with config cfg and window hist,
\* reading in.  err is what it returns ("nil" for no error), hang says that
\* it never returns, shown says that display.Update (and CheckThresholds
\* before it) was called with status, ep is the inspector state that status
\* was built under, looked says that FindProcessByPort was called, now is
\* the time of the pass.
collectAndProcess(cfg, hist, in, now) ==
    LET cfg1 == IF NeedsResolve(cfg) /\ in.found
                THEN [cfg EXCEPT !.PID = in.pid] ELSE cfg       \* 68-74
        skip(e, c) == [err |-> e, hang |-> FALSE, config |-> c,
                       hist |-> WindowAtEarlyReturn(hist),
                       sampled |-> FALSE, el |-> NoEL, shown |-> FALSE,
                       status |-> NoStatus, ep |-> "none",
                       looked |-> (NeedsResolve(cfg))]
        withAlerts(st) == StatusWithAlerts(st, cfg1, now)
        \* from line 87 on, with ev what CollectEventLoop did
        rest(ev) ==
            IF ev.hang
            THEN [skip("nil", cfg1) EXCEPT !.hang = TRUE]
            ELSE [err |-> "nil", hang |-> FALSE, config |-> cfg1,
                  hist |-> ev.hist, sampled |-> TRUE, el |-> ev.el,
                  shown |-> TRUE, ep |-> in.ep, looked |-> (NeedsResolve(cfg)),
                  status |-> withAlerts(
                             [PID |-> cfg1.PID, CPU |-> in.cpu,
                              RSS |-> in.rss,
                              Heap |-> NodeHeap(in.ep, in.second),
                              EventLoop |-> ev.el, GC |-> CollectGC,
                              Handles |-> CollectHandles, V8 |-> CollectV8,
                              Alerts |-> << >>])]
    IN  IF NeedsResolve(cfg) /\ ~in.found THEN skip("find", cfg)      \* 70-72
        ELSE IF ~in.cpuOk THEN skip("cpu", cfg1)                \* 77-80
        ELSE IF ~in.memOk THEN skip("memory", cfg1)             \* 82-85
        ELSE CHOOSE o \in {rest(ev) : ev \in {CollectEventLoop(
                              hist, in.ep, in.probeOk, in.probeCpu)}} : TRUE

LoopPcs == {"select", "pass", "hung", "stop"}
PassPcs == {"pass", "hung"}

InLoop(p) == pc[p] \in LoopPcs
InPass(p) == pc[p] \in PassPcs

\* Monitor, Collector, Dashboard and Manager right after New (lines 26-33)
InitMonitor ==
    /\ running = FALSE
    /\ mu = None
    /\ pc = [p \in Callers |-> "idle"]
    /\ result = [p \in Callers |-> "none"]
    /\ ctxDone = [p \in Callers |-> FALSE]
    /\ tickC = [p \in Callers |-> FALSE]
    /\ passErr = [p \in Callers |-> "none"]
    /\ passes = 0
    /\ eventLoopHist = << >>
    /\ appended = << >>
    /\ lastEL = NoEL
    /\ display = NoStatus
    /\ displayEp = "none"
    /\ displayed = 0
    /\ evaluated = 0
    /\ lookups = 0
    /\ pattern = "none"
    /\ activeAlerts = NoActiveAlerts
    /\ calls = << >>
    /\ clock = 0

Init ==
    /\ config \in TargetConfigs
    /\ watch = "valid"
    /\ InitMonitor

\* -------------------------------------------------------- Monitor.Start

\* part_001 line 36: m.mu.Lock().  Callers are numbered in the order in
\* which their calls reach the lock.
StartLock(p) ==
    /\ pc[p] = "idle"
    /\ \A q \in Callers : q < p => pc[q] # "idle"
    /\ CanLock(mu)
    /\ mu' = p
    /\ pc' = [pc EXCEPT ![p] = "check"]
    /\ UNCHANGED <<config, running, result, ctxDone, tickC, passErr, passes>>
    /\ UNCHANGED <<sampleVars, outVars, modeVars>>

\* lines 37-40: the flag is read; if set, unlock and return the error
StartCheck(p) ==
    /\ pc[p] = "check"
    /\ IF AlreadyRunning(running)
       THEN /\ mu' = None
            /\ result' = [result EXCEPT ![p] = "AlreadyRunning"]
            /\ pc' = [pc EXCEPT ![p] = "returned"]
       ELSE /\ pc' = [pc EXCEPT ![p] = "set"]
            /\ UNCHANGED <<mu, result>>
    /\ UNCHANGED <<config, running, ctxDone, tickC, passErr, passes>>
    /\ UNCHANGED <<sampleVars, outVars, modeVars>>

\* lines 41-48: m.running = true, unlock, time.NewTicker
StartSet(p) ==
    /\ pc[p] = "set"
    /\ running' = TRUE
    /\ mu' = None
    /\ tickC' = [tickC EXCEPT ![p] = FALSE]
    /\ pc' = [pc EXCEPT ![p] = "select"]
    /\ UNCHANGED <<config, result, ctxDone, passErr, passes>>
    /\ UNCHANGED <<sampleVars, outVars, modeVars>>

\* the runtime timer of the ticker made on line 47: it puts a tick into
\* ticker.C (capacity 1) and drops the tick when one is already waiting.
\* Only a loop that can come back to select ever reads ticker.C again.
TickerFire(p) ==
    /\ pc[p] \in {"select", "pass"}
    /\ tickC' = [tickC EXCEPT ![p] = TRUE]
    /\ UNCHANGED <<config, running, mu, pc, result, ctxDone, passErr, passes>>
    /\ UNCHANGED <<sampleVars, outVars, modeVars>>

\* watch.go lines 73-77: cancel() of the context passed to Start.  Start
\* reads ctx on line 52 only, so a cancel() before the call is the same as
\* one right after it, and one after the return is not seen.
Cancel(p) ==
    /\ ~ctxDone[p]
    /\ pc[p] \notin {"idle", "returned"}
    /\ ctxDone' = [ctxDone EXCEPT ![p] = TRUE]
    /\ UNCHANGED <<config, running, mu, pc, result, tickC, passErr, passes>>
    /\ UNCHANGED <<sampleVars, outVars, modeVars>>

\* lines 51 and 58: select takes the tick and calls collectAndProcess
SelectTick(p) ==
    /\ pc[p] = "select"
    /\ "tick" \in ReadyCases(ctxDone[p], tickC[p])
    /\ passes < MaxPasses
    /\ tickC' = [tickC EXCEPT ![p] = FALSE]
    /\ passes' = passes + 1
    /\ pc' = [pc EXCEPT ![p] = "pass"]
    /\ UNCHANGED <<config, running, mu, result, ctxDone, passErr>>
    /\ UNCHANGED <<sampleVars, outVars, modeVars>>

\* lines 59-61: collectAndProcess runs and returns to the loop, or hangs
RunPass(p) ==
    /\ pc[p] = "pass"
    /\ \E r \in {collectAndProcess(config, eventLoopHist, in, passes) :
                    in \in PassInputs} :
          /\ config' = r.config
          /\ eventLoopHist' = r.hist
          /\ appended' = IF r.sampled THEN Append(appended, r.el.Lag)
                         ELSE appended
          /\ lastEL' = IF r.sampled THEN r.el ELSE lastEL
          /\ display' = IF r.shown THEN r.status ELSE display
          /\ displayEp' = IF r.shown THEN r.ep ELSE displayEp
          /\ displayed' = IF r.shown THEN displayed + 1 ELSE displayed
          /\ evaluated' = IF r.shown THEN evaluated + 1 ELSE evaluated
          /\ lookups' = IF r.looked THEN lookups + 1 ELSE lookups
          /\ IF r.hang
             THEN /\ pc' = [pc EXCEPT ![p] = "hung"]
                  /\ UNCHANGED passErr
             ELSE /\ pc' = [pc EXCEPT ![p] = AfterPass(r.err)]
                  /\ passErr' = [passErr EXCEPT ![p] = r.err]
    /\ UNCHANGED <<schedVars, passes, modeVars>>

\* lines 51-52: select takes ctx.Done()
SelectDone(p) ==
    /\ pc[p] = "select"
    /\ "ctx" \in ReadyCases(ctxDone[p], tickC[p])
    /\ pc' = [pc EXCEPT ![p] = "stop"]
    /\ UNCHANGED <<config, running, mu, result, ctxDone, tickC, passErr,
                   passes>>
    /\ UNCHANGED <<sampleVars, outVars, modeVars>>

\* lines 53-57 and the deferred ticker.Stop(): running = false under the
\* lock, return nil
StopLoop(p) ==
    /\ pc[p] = "stop"
    /\ CanLock(mu)
    /\ running' = FALSE
    /\ mu' = None
    /\ result' = [result EXCEPT ![p] = "nil"]
    /\ tickC' = [tickC EXCEPT ![p] = FALSE]
    /\ passErr' = [passErr EXCEPT ![p] = "none"]
    /\ pc' = [pc EXCEPT ![p] = "returned"]
    /\ UNCHANGED <<config, ctxDone, passes>>
    /\ UNCHANGED <<sampleVars, outVars, modeVars>>

Step(p) ==
    \/ StartLock(p) \/ StartCheck(p) \/ StartSet(p)
    \/ SelectTick(p) \/ RunPass(p) \/ SelectDone(p) \/ StopLoop(p)

Next ==
    \E p \in Callers : Step(p) \/ TickerFire(p) \/ Cancel(p)

Spec == Init /\ [][Next]_vars

\* goroutines are scheduled fairly; a select whose ctx.Done() case is ready
\* again and again takes it eventually (Go picks among the ready cases
\* uniformly at random)
FairSpec ==
    /\ Spec
    /\ \A p \in Callers : WF_vars(Step(p)) /\ SF_vars(SelectDone(p))

\* ------------------------------------------- the watch command (SpecWatch)
\* runWatch (watch.go 49-80): the flags make a ServiceConfig, Validate
\* checks it, and only a valid one reaches monitor.New and Start.

\* config.go 18-32; PollingInterval in ms, so time.Millisecond is 1
Validate(sc) ==
    IF sc.PID = 0 /\ sc.Port = 0 THEN "must specify either PID or port"
    ELSE IF sc.CPUThreshold <= 0 \/ sc.CPUThreshold > 100
         THEN "CPU threshold must be between 0 and 100"
    ELSE IF sc.PollingInterval < 1
         THEN "polling interval must be at least 1ms"
    ELSE "nil"

\* flag values around the limits of Validate
PidFlags          == {0, Lowest(Pids)}
PortFlags         == {0} \cup Ports
CpuThresholdFlags == {0, DefaultCPUThreshold, 100, 101}
PollingFlags      == {0, 1, DefaultPollingMs}

\* command lines: every choice of --pid and --port with the other flags at
\* their defaults, and --cpu-threshold or --polling-ms set with --pid given
FlagConfigs ==
    {FlagConfig(pid, port, DefaultCPUThreshold, DefaultPollingMs) :
        pid \in PidFlags, port \in PortFlags}
    \cup {FlagConfig(Lowest(Pids), 0, t, DefaultPollingMs) :
            t \in CpuThresholdFlags}
    \cup {FlagConfig(Lowest(Pids), 0, DefaultCPUThreshold, ms) :
            ms \in PollingFlags}

InitWatch ==
    /\ config \in FlagConfigs
    /\ watch = "flags"
    /\ InitMonitor

\* watch.go 60-62: cfg.Validate(); an error returns from runWatch
ValidateFlags ==
    /\ watch = "flags"
    /\ watch' = IF Validate(config) = "nil" THEN "valid" ELSE "invalid"
    /\ UNCHANGED <<config, schedVars, pc, passErr, passes, sampleVars, outVars>>
    /\ UNCHANGED <<pattern, alertVars>>

\* watch.go 64-79: monitor.New(cfg) and Start, reached after line 62 only
RunMonitor ==
    /\ watch = "valid"
    /\ Next

NextWatch == ValidateFlags \/ RunMonitor

SpecWatch == InitWatch /\ [][NextWatch]_vars

\* ------------------------------------- the collector alone (SpecWindow)
\* CollectEventLoop called MaxSamples times in a row on one Collector, as a
\* test of the rolling window would do; the k-th call sees the inspector up
\* and executeScript reading the CPU percentage PatternCpu(pattern, k), or
\* the inspector unreachable where PatternUp is false.

Patterns == {"asc", "desc", "zigzag", "spike", "dip", "flat", "steady"}

PatternCpu(pat, k) ==
    CASE pat = "asc"    -> 2 * k - 1                 \* lag = k ms
      [] pat = "desc"   -> IF k < 150 THEN 299 - 2 * k ELSE 1
      [] pat = "zigzag" -> (k * 37) % 101
      [] pat = "spike"  -> IF k = 1 THEN 95 ELSE 1 + (k % 3)
      [] pat = "dip"    -> 9 + (k % 2)
      [] pat = "steady" -> 14                        \* lag = 7.5 ms
      [] OTHER          -> 9

PatternUp(pat, k) == ~(pat = "dip" /\ k = 1)

InitWindow ==
    /\ Init
    /\ config.PID # 0

PickPattern ==
    /\ pattern = "none"
    /\ pattern' \in Patterns
    /\ UNCHANGED <<config, schedVars, pc, passErr, passes, sampleVars, outVars>>
    /\ UNCHANGED <<watch, alertVars>>

Sample ==
    /\ pattern # "none"
    /\ Len(appended) < MaxSamples
    /\ LET k == Len(appended) + 1
           r == CollectEventLoop(eventLoopHist,
                                 IF PatternUp(pattern, k) THEN "up"
                                 ELSE "unreachable",
                                 TRUE, PatternCpu(pattern, k))
       IN  /\ eventLoopHist' = r.hist
           /\ appended' = Append(appended, r.lag)
           /\ lastEL' = r.el
    /\ UNCHANGED <<config, schedVars, pc, passErr, passes, outVars, modeVars>>

NextWindow == PickPattern \/ Sample

SpecWindow == InitWindow /\ [][NextWindow]_vars

\* ------------------------------------ the evaluator alone (SpecAlerts)
\* CheckThresholds called up to MaxCalls times on one Manager with Status
\* values built around the bands, each followed by the hand-over of lines
\* 173-176, as a test of the evaluator would do.

\* cpu-thresholds Validate lets through
AlertThresholds == {70, 95, 100}

AlertConfigs ==
    {FlagConfig(Lowest(Pids), 0, t, DefaultPollingMs) : t \in AlertThresholds}

\* the values at, just below and just above the two bands
Levels(warn, crit) == {warn - 1, warn, warn + 1, crit, crit + 1}

\* CPU usages around 70, 90, 95 and 100
CpuLevels == {69, 70, 71, 89, 90, 91, 93, 95, 96, 100, 101}

\* <<heap-used, heap-total>>, MB: around 80 and 95 percent, and no heap data
HeapLevels ==
    {<<u, 100>> : u \in Levels(HeapWarning, HeapCritical)}
    \cup {<<0, 0>>, <<45, 0>>}

\* a reading is <<cpu, rss, <<heap-used, heap-total>>, lag, utilization,
\* gc duration, active handles>>
FineLevels ==
    <<CpuLevels, Levels(MemoryWarning, MemoryCritical), HeapLevels,
      Levels(LagWarning, LagCritical), Levels(UtilWarning, UtilCritical),
      Levels(GCWarning, GCCritical), Levels(HandlesWarning, HandlesCritical)>>

\* per metric one value that is quiet and one above every band
CoarseReadings ==
    {<<cpu, rss, heap, lag, util, gc, h>> :
        cpu \in {69, 101},
        rss \in {MemoryWarning, MemoryCritical + 1},
        heap \in {<<HeapWarning, 100>>, <<HeapCritical + 1, 100>>},
        lag \in {LagWarning, LagCritical + 1},
        util \in {UtilWarning, UtilCritical + 1},
        gc \in {GCWarning, GCCritical + 1},
        h \in {HandlesWarning, HandlesCritical + 1}}

\* every combination of quiet and loud metrics, with one metric taken
\* through all of its levels
Readings ==
    UNION {{[c EXCEPT ![k] = v] : c \in CoarseReadings, v \in FineLevels[k]} :
              k \in 1..7}

\* the Status with reading r
StatusOf(r) ==
    [NoStatus EXCEPT
        !.PID = Lowest(Pids), !.CPU = r[1], !.RSS = r[2],
        !.Heap = [HeapTotal |-> r[3][2], HeapUsed |-> r[3][1], External |-> 0],
        !.EventLoop = [NoEL EXCEPT !.Lag = r[4], !.Utilization = r[5]],
        !.GC = [GCDefaults EXCEPT !.Duration = r[6]],
        !.Handles = [HandleDefaults EXCEPT !.Active = r[7]]]

LoudStatus == StatusOf(<<101, MemoryCritical + 1, <<HeapCritical + 1, 100>>,
                         LagCritical + 1, UtilCritical + 1, GCCritical + 1,
                         HandlesCritical + 1>>)

InitAlerts ==
    /\ config \in AlertConfigs
    /\ watch = "valid"
    /\ InitMonitor

\* part_001 lines 171-176 on a Status st: CheckThresholds, status.Alerts,
\* display.Update.  The first call takes any reading, a later one the Status
\* of the first call again or LoudStatus; the clock moves between calls.
Evaluate ==
    /\ Len(calls) < MaxCalls
    /\ \E st \in (IF calls = << >> THEN {StatusOf(r) : r \in Readings}
                  ELSE {calls[1].status, LoudStatus}) :
          \E shown \in {StatusWithAlerts(st, config, clock)} :
             /\ calls' = Append(calls, [status |-> st, cfg |-> config,
                                        alerts |-> shown.Alerts])
             /\ display' = shown
    /\ displayed' = displayed + 1
    /\ evaluated' = evaluated + 1
    /\ clock' = clock + 1
    /\ UNCHANGED <<config, schedVars, pc, passErr, passes, sampleVars>>
    /\ UNCHANGED <<displayEp, lookups, pattern, watch, activeAlerts>>

NextAlerts == Evaluate

SpecAlerts == InitAlerts /\ [][NextAlerts]_vars

\* ================================================================ claims

Decided == {p \in Callers : InLoop(p) \/ pc[p] = "returned"}

\* C1: of the calls of Start that have got past the flag, exactly one is in
\* the polling loop and every other one has returned AlreadyRunning, as long
\* as no loop has been cancelled to its end; and never are two polling loops
\* (two tickers) active on one Monitor.
C1_OneLoopOthersRejected ==
    /\ Cardinality({p \in Callers : InLoop(p) \/ pc[p] = "set"}) <= 1
    /\ (Decided # {} /\ \A p \in Callers : result[p] # "nil") =>
          /\ Cardinality({p \in Decided : InLoop(p)}) = 1
          /\ \A p \in Decided : ~InLoop(p) => result[p] = "AlreadyRunning"

\* every call has been decided: one loops (and has run a pass), the others
\* were turned away
C1_Witness ==
    /\ Decided = Callers
    /\ \E p \in Callers : InLoop(p) /\ passes > 0
    /\ \E p \in Callers : result[p] = "AlreadyRunning"

\* C2: a Start that finds the flag set returns AlreadyRunning and changes
\* nothing else: the flag stays true, the config, the tickers, the window,
\* the display and every other caller (the active loop among them) are as
\* before, and no pass is started.
C2_RejectedStartChangesNothing ==
    [][\A p \in Callers :
          (pc[p] = "check" /\ running /\ pc'[p] # "check") =>
             /\ result'[p] = "AlreadyRunning"
             /\ pc'[p] = "returned"
             /\ running'
             /\ \A q \in Callers \ {p} : pc'[q] = pc[q] /\ result'[q] = result[q]
             /\ UNCHANGED <<config, ctxDone, tickC, passErr, passes,
                            sampleVars, outVars>>]_vars

\* a call was turned away while the loop of another caller is in a pass,
\* with a tick waiting and a Status already shown
C2_Witness ==
    \E p, q \in Callers :
        /\ result[p] = "AlreadyRunning"
        /\ running
        /\ pc[q] = "pass" /\ tickC[q]
        /\ displayed > 0

\* C3: at most one pass of the Monitor is in flight.
C3_OnePassInFlight ==
    Cardinality({p \in Callers : InPass(p)}) <= 1

\* the timer fired while a pass is running, and that pass is not the first
C3_Witness ==
    \E p \in Callers : pc[p] = "pass" /\ tickC[p] /\ passes = MaxPasses

\* C4: once the context of a running loop is cancelled, Start eventually
\* returns nil (with the flag cleared on the way out).
C4_CancelLeadsToReturn ==
    \A p \in Callers :
        (InLoop(p) /\ ctxDone[p]) ~> (pc[p] = "returned" /\ result[p] = "nil")

\* C5: a select reached with the context cancelled never enters a pass.
C5_NoPassAfterCancel ==
    [][\A p \in Callers :
          (pc[p] = "select" /\ ctxDone[p]) => pc'[p] # "pass"]_vars

\* C6: a pass that returns an error (resolution, CPU, memory) shows nothing
\* and evaluates nothing, leaves the flag set and Start running, and puts the
\* loop back at select; the loop is left only with the context cancelled.
C6_FailedPassSkipsTickOnly ==
    /\ [](\A p \in Callers :
            (pc[p] = "stop" \/ result[p] = "nil") => ctxDone[p])
    /\ [][\A p \in Callers :
            (/\ pc[p] = "pass"
             /\ pc'[p] \notin {"pass", "hung"}
             /\ passErr'[p] \in {"find", "cpu", "memory"}) =>
               /\ pc'[p] = "select"
               /\ running /\ running'
               /\ result' = result
               /\ UNCHANGED <<display, displayEp, displayed, evaluated>>
               /\ UNCHANGED sampleVars]_vars

\* after a pass that failed on CPU or memory the next tick started a new pass
C6_Witness ==
    \E p \in Callers :
        /\ pc[p] = "pass"
        /\ passErr[p] \in {"cpu", "memory"}
        /\ running
        /\ displayed = 0

\* C7: a Status built with the inspector unreachable has lag 0, the GC and
\* handle defaults and empty heap-space maps.
C7_UnreachableGivesDefaults ==
    (displayed > 0 /\ displayEp = "unreachable") =>
        /\ display.EventLoop.Lag = 0
        /\ display.GC = GCDefaults
        /\ display.Handles = HandleDefaults
        /\ display.V8.HeapSpaceUsed = EmptyMap
        /\ display.V8.HeapSpaceSize = EmptyMap
        /\ display.V8.HeapSpaceAvailable = EmptyMap

\* C8: every pass in flight comes to an end.
C8_PassTerminates ==
    \A p \in Callers : InPass(p) ~> ~InPass(p)

Min2(a, b) == IF a < b THEN a ELSE b

\* the last n of the samples appended so far
LastOf(n) == SubSeq(appended, Len(appended) - n + 1, Len(appended))

\* C9: the window is the last min(k, 100) of the k samples appended so far,
\* in order, so never longer than 100; and the Min and Max reported with the
\* last sample are the smallest and the largest of exactly those.
C9_WindowIsLastHundred ==
    LET n == Min2(Len(appended), WindowCap)
    IN  /\ Len(eventLoopHist) <= WindowCap
        /\ eventLoopHist = LastOf(n)
        /\ n > 0 =>
              /\ \E i \in 1..n : LastOf(n)[i] = lastEL.Max
              /\ \E i \in 1..n : LastOf(n)[i] = lastEL.Min
              /\ \A i \in 1..n : lastEL.Min <= LastOf(n)[i]
                                 /\ LastOf(n)[i] <= lastEL.Max

\* the 101st sample has evicted the first, which was the largest so far: it
\* no longer is the Max
C9_Witness ==
    /\ Len(appended) = WindowCap + 1
    /\ Len(eventLoopHist) = WindowCap
    /\ \A i \in 2..Len(appended) : appended[i] < appended[1]
    /\ lastEL.Max < appended[1]

\* C10: p95 is the value of rank min(floor(0.95 n), n-1) (counted from 0) of
\* the window in ascending order: a value of the window with at most that
\* many values below it and more than that many not above it; and for the
\* window 1, 2, ..., 10 ms it is 10 ms.
C10_P95NearestRank ==
    LET n == Len(eventLoopHist)
        k == Min2((95 * n) \div 100, n - 1)
        v == lastEL.P95
    IN  n > 0 =>
          /\ \E i \in 1..n : eventLoopHist[i] = v
          /\ Cardinality({i \in 1..n : eventLoopHist[i] < v}) <= k
          /\ Cardinality({i \in 1..n : eventLoopHist[i] <= v}) > k
          /\ eventLoopHist = [i \in 1..10 |-> 10 * i] => v = 100

\* a window that is not in ascending order and long enough for the rank to
\* differ from the maximum
C10_Witness ==
    /\ Len(eventLoopHist) = WindowCap
    /\ \E i \in 1..(WindowCap - 1) : eventLoopHist[i] > eventLoopHist[i + 1]
    /\ lastEL.P95 < lastEL.Max
    /\ lastEL.P95 > lastEL.Min

\* ----------------------------------------------------- alert evaluation

\* the alerts of list whose message is the one of check number head
AlertsOf(list, head) ==
    SelectSeq(list, LAMBDA a : a.Message = MessageHeads[head])

HasSeverity(list, sev) == \E k \in DOMAIN list : list[k].Severity = sev

\* critical iff v is above crit, warning iff above warn and not above crit,
\* nothing otherwise, and never two alerts
InBands(list, v, warn, crit) ==
    /\ Len(list) <= 1
    /\ HasSeverity(list, "critical") <=> v > crit
    /\ HasSeverity(list, "warning") <=> (v > warn /\ ~(v > crit))
    /\ list = << >> <=> ~(v > warn \/ v > crit)

\* C11: for every cpu-threshold T and CPU usage u a call returns a critical
\* CPU alert iff u > 90, a warning CPU alert iff u > T and not u > 90, and no
\* CPU alert otherwise; the alert carries u and T; u = 95 with T = 70 gives
\* exactly one critical CPU alert with value 95 and threshold 70.
C11_CpuBands ==
    \A i \in DOMAIN calls :
        LET u   == calls[i].status.CPU
            T   == calls[i].cfg.CPUThreshold
            cpu == SelectSeq(calls[i].alerts, LAMBDA a : a.Type = "cpu")
        IN  /\ InBands(cpu, u, T, 90)
            /\ \A k \in DOMAIN cpu : cpu[k].Value = u /\ cpu[k].Threshold = T
            /\ (u = 95 /\ T = 70) =>
                  /\ Len(cpu) = 1
                  /\ cpu[1].Severity = "critical"
                  /\ cpu[1].Value = 95
                  /\ cpu[1].Threshold = 70

CheckNumber(msg) == CHOOSE h \in DOMAIN MessageHeads : MessageHeads[h] = msg

\* C13: the alerts of every returned list are in the order CPU, memory,
\* heap percentage, lag, utilization, GC duration, handles, and the Status
\* handed to the display carries the list as returned.
C13_FixedOrder ==
    /\ \A i \in DOMAIN calls :
          \A k, l \in DOMAIN calls[i].alerts :
              k < l => CheckNumber(calls[i].alerts[k].Message)
                          < CheckNumber(calls[i].alerts[l].Message)
    /\ calls # << >> => display.Alerts = calls[Len(calls)].alerts

\* a list with an alert of every metric, shown
C13_Witness ==
    /\ calls # << >>
    /\ Len(display.Alerts) = 7
    /\ display.Alerts[1].Type = "cpu"
    /\ display.Alerts[7].Type = "handles"

\* C14: no returned list holds two alerts of the same kind, and no metric
\* contributes two alerts.
C14_KindsDistinct ==
    \A i \in DOMAIN calls :
        /\ \A k, l \in DOMAIN calls[i].alerts :
              k # l => calls[i].alerts[k].Type # calls[i].alerts[l].Type
        /\ \A h \in DOMAIN MessageHeads : Len(AlertsOf(calls[i].alerts, h)) <= 1

\* C15: a snapshot with heap-total 0 gets no heap alert, whatever heap-used
\* is, and a snapshot taken with the inspector unreachable has heap-total 0.
C15_NoHeapAlertWithoutTotal ==
    /\ \A i \in DOMAIN calls :
          calls[i].status.Heap.HeapTotal = 0 =>
              /\ AlertsOf(calls[i].alerts, 3) = << >>
              /\ \A k \in DOMAIN calls[i].alerts :
                    calls[i].alerts[k].Type # "heap"
    /\ \A second \in {"ok", "err"} :
          NodeHeap("unreachable", second).HeapTotal = 0

\* heap-used 45 MB of a heap-total of 0, next to other alerts
C15_Witness ==
    \E i \in DOMAIN calls :
        /\ calls[i].status.Heap.HeapTotal = 0
        /\ calls[i].status.Heap.HeapUsed > 0
        /\ calls[i].alerts # << >>

\* C16: two calls with the same snapshot and the same thresholds return the
\* same list of alerts, whatever was called in between, and the evaluator
\* retains nothing.
C16_SameInputSameAlerts ==
    /\ activeAlerts = NoActiveAlerts
    /\ \A i, j \in DOMAIN calls :
          (calls[i].status = calls[j].status /\ calls[i].cfg = calls[j].cfg)
              => calls[i].alerts = calls[j].alerts

\* ------------------------------------------------- target and resolution

\* C17: with the target given by port, once the pid is resolved no step
\* changes it, no step calls the resolver again, and every Status shown
\* afterwards carries that pid.
C17_ResolvedPidCached ==
    [][(config.Port # 0 /\ config.PID # 0) =>
          /\ config'.PID = config.PID
          /\ lookups' = lookups
          /\ displayed' # displayed => display'.PID = config.PID]_vars

\* a port target resolved by the first pass and used by a second pass
C17_Witness ==
    /\ config.Port # 0
    /\ config.PID # 0
    /\ lookups = 1
    /\ displayed = 2
    /\ display.PID = config.PID

\* C18: after a pass of a run has failed to resolve the port, no later step
\* of that run calls the resolver again.
C18_NoRetryAfterFailedResolution ==
    [][(\E p \in Callers : passErr[p] = "find") => lookups' = lookups]_vars

\* exactly one of pid and port given, cpu-threshold in (0,100], polling
\* interval at least 1 ms
WellFormedTarget(sc) ==
    /\ (sc.PID # 0) # (sc.Port # 0)
    /\ sc.CPUThreshold > 0
    /\ sc.CPUThreshold <= 100
    /\ sc.PollingInterval >= 1

\* C19: validation accepts a configuration only if exactly one of pid and
\* port is given, the cpu-threshold is in (0,100] and the polling interval is
\* at least 1 ms; without an accepted configuration the scheduler is not
\* started and no pass runs.
C19_ValidationGuardsStart ==
    /\ [][(watch = "flags" /\ watch' = "valid") => WellFormedTarget(config)]_vars
    /\ [](watch # "valid" =>
            /\ ~running
            /\ \A p \in Callers : pc[p] = "idle"
            /\ passes = 0
            /\ displayed = 0)

\* C20: no step changes any field of the configuration.
C20_ConfigImmutable ==
    [][config' = config]_vars

\* ------------------------------------------------- event-loop measurement

\* C21: the lag is not derived from the CPU usage of the process: two
\* collections that see the same inspector state and differ only in the CPU
\* percentage read from the process report the same lag.
C21_LagIndependentOfCpu ==
    \A i, j \in DOMAIN appended :
        PatternUp(pattern, i) = PatternUp(pattern, j)
            => appended[i] = appended[j]

\* the lags a collection can report, in tenths of a ms: 0 and the simulated
\* lag of every CPU percentage of the patterns
LagRange == 0..SimulatedLag(SampledCpuMax)

\* C22: the utilization is 10*lag for 0 <= lag <= 1 ms and
\* min(100, 10 + 5*(lag - 1)) above, of the latest lag only; it does not
\* decrease as the lag grows, the two branches meet at 1 ms, it never
\* exceeds 100 and it is exactly 100 from 19 ms on.
C22_UtilizationOfLag ==
    LET lag == lastEL.Lag
        U(l) == calculateEventLoopUtilization(l)
    IN  /\ lag \in LagRange
        /\ lag <= 10 => lastEL.Utilization = 10 * lag
        /\ lag > 10 =>
              lastEL.Utilization = Min2(1000, 100 + 5 * (lag - 10))
        /\ lastEL.Utilization <= 1000
        /\ lag >= 190 => lastEL.Utilization = 1000
        /\ \A l \in LagRange :
              /\ U(l) <= U(l + 1)
              /\ U(l) <= 1000
              /\ l >= 190 => U(l) = 1000
        /\ U(10) = 100 /\ U(11) - U(10) = 5 /\ U(10) - U(9) = 10

\* the ceiling is met exactly at 19 ms, after samples on both branches
C22_Witness ==
    /\ Len(appended) > 1
    /\ \E i \in DOMAIN appended : appended[i] <= 10
    /\ \E i \in DOMAIN appended : appended[i] > 10 /\ appended[i] < 190
    /\ lastEL.Lag = 190
    /\ lastEL.Utilization = 1000

\* C23: a pass given up on a failed pid resolution, CPU or memory collection
\* leaves the window as it was, in length and contents, so it adds no sample
\* to the statistics: the window holds one sample per completed pass.
C23_SkippedPassKeepsWindow ==
    /\ [](/\ Len(appended) = displayed
          /\ Len(eventLoopHist) = Min2(displayed, WindowCap)
          /\ lastEL.Count = Len(eventLoopHist))
    /\ [][\A p \in Callers :
            (/\ pc[p] = "pass"
             /\ pc'[p] \notin PassPcs
             /\ passErr'[p] \in {"find", "cpu", "memory"}) =>
               /\ eventLoopHist' = eventLoopHist
               /\ Len(eventLoopHist') = Len(eventLoopHist)
               /\ appended' = appended
               /\ lastEL' = lastEL]_vars

\* a pass has failed on CPU or memory after an earlier one had put a sample
\* into the window
C23_Witness ==
    \E p \in Callers :
        /\ pc[p] = "select"
        /\ passErr[p] \in {"cpu", "memory"}
        /\ Len(eventLoopHist) = 1
        /\ displayed = 1
        /\ passes = 2

\* C24: every collection that returns appends exactly one sample to the
\* window, the measured lag if the measurement succeeded and 0 if it
\* failed; a failed measurement is a 0 among the samples the minimum, the
\* mean and the p95 are taken over, for as long as it is retained.
C24_OneSamplePerCollection ==
    /\ [][pattern # "none" =>
            LET k == Len(appended) + 1
            IN  /\ appended' = Append(appended, lastEL'.Lag)
                /\ Len(eventLoopHist') =
                       Min2(Len(eventLoopHist) + 1, WindowCap)
                /\ eventLoopHist'[Len(eventLoopHist')] = lastEL'.Lag
                /\ PatternUp(pattern, k) =>
                       lastEL'.Lag = SimulatedLag(PatternCpu(pattern, k))
                /\ ~PatternUp(pattern, k) => lastEL'.Lag = 0]_vars
    /\ [](\A k \in DOMAIN appended :
            ~PatternUp(pattern, k) =>
               /\ appended[k] = 0
               /\ lastEL.Count = Len(eventLoopHist)
               /\ k > Len(appended) - WindowCap =>
                     /\ \E i \in DOMAIN eventLoopHist : eventLoopHist[i] = 0
                     /\ lastEL.Min = 0
                     /\ lastEL.Sum <= lastEL.Max * (lastEL.Count - 1)
                     /\ Len(appended) = 1 =>
                           lastEL.P95 = 0 /\ lastEL.Sum = 0
               /\ k <= Len(appended) - WindowCap => lastEL.Min > 0)

\* the failed first measurement is the oldest of a full window and still the
\* minimum of it
C24_Witness ==
    /\ ~PatternUp(pattern, 1)
    /\ Len(appended) = WindowCap
    /\ eventLoopHist[1] = 0
    /\ lastEL.Min = 0
    /\ lastEL.Max > 0
    /\ lastEL.Count = WindowCap

\* lags at and next to the edges of the lag and utilization bands
BandEdges == {0, 50, 51, 130, 131, 170, 171, 200, 201}

\* the alerts of the Status a pass builds when it measures the lag l with
\* everything else quiet
AlertsAtLag(l) ==
    StatusWithAlerts([NoStatus EXCEPT
                         !.EventLoop = EventLoopMetrics(<<l>>, l)],
                     config, 0).Alerts

\* C25: a Status built by a pass never has a utilization alert without a lag
\* alert: a utilization above 70 percent needs a lag above 13 ms, which is
\* above the lag warning band of 5 ms; with a lag above 17 and up to 20 ms
\* the utilization alert is critical while the lag alert is a warning.
C25_UtilizationAlertImpliesLagAlert ==
    LET lag   == display.EventLoop.Lag
        lagA  == AlertsOf(display.Alerts, 4)
        utilA == AlertsOf(display.Alerts, 5)
    IN  /\ utilA # << >> => lagA # << >>
        /\ display.EventLoop.Utilization > UtilWarning => lag > 130
        /\ 130 > LagWarning
        /\ (lag > 170 /\ lag <= LagCritical) =>
              /\ HasSeverity(utilA, "critical")
              /\ HasSeverity(lagA, "warning")
              /\ ~HasSeverity(lagA, "critical")
        /\ lag > LagCritical =>
              HasSeverity(utilA, "critical") /\ HasSeverity(lagA, "critical")
        \* the same at the band edges; this depends on the config alone
        /\ passes = 0 =>
              \A l \in BandEdges :
                 /\ calculateEventLoopUtilization(l) > UtilWarning => l > 130
                 /\ \A al \in {AlertsAtLag(l)} :
                       AlertsOf(al, 5) # << >> => AlertsOf(al, 4) # << >>

\* a pass measured 18 ms: the utilization alert is critical, the lag alert
\* a warning
C25_Witness ==
    /\ displayed > 0
    /\ display.EventLoop.Lag = 180
    /\ HasSeverity(AlertsOf(display.Alerts, 5), "critical")
    /\ HasSeverity(AlertsOf(display.Alerts, 4), "warning")
    /\ Len(AlertsOf(display.Alerts, 4)) = 1

\* C26: in every snapshot the statistics fit the retained window: Min and
\* Max are its smallest and largest samples, and the latest lag, the p95 and
\* the mean all lie between Min and Max.
C26_StatsWithinWindow ==
    LET n    == Len(eventLoopHist)
        mean == Float64Mean(eventLoopHist)
    IN  n > 0 =>
          /\ \E i \in 1..n : eventLoopHist[i] = lastEL.Min
          /\ \E i \in 1..n : eventLoopHist[i] = lastEL.Max
          /\ \A i \in 1..n : /\ lastEL.Min <= eventLoopHist[i]
                             /\ eventLoopHist[i] <= lastEL.Max
          /\ eventLoopHist[n] = lastEL.Lag
          /\ lastEL.Min <= lastEL.Lag /\ lastEL.Lag <= lastEL.Max
          /\ lastEL.Min <= lastEL.P95 /\ lastEL.P95 <= lastEL.Max
          /\ FxLe(Float64OfLag(lastEL.Min), mean)
          /\ FxLe(mean, Float64OfLag(lastEL.Max))

====
